---- MODULE Spec2Model ----
(***************************************************************************)
(* State-machine model of the AMoD fleet simulator (src/envs/amod_env.py)  *)
(* driven by the episode loop of SAC.test_agent (src/algos/sac.py).        *)
(*                                                                         *)
(* Money is counted in whole currency units; vehicle flows are whole       *)
(* vehicles.  Python dicts are functions whose DOMAIN is the key set.      *)
(***************************************************************************)
EXTENDS Integers, Sequences, FiniteSets, TLC

\* ------------------------------------------------------------------ bounds
MaxTf == 2          \* horizons tf in 1..MaxTf; requests are made before time MaxTf
MaxTrips == 1       \* total trip requests drawn for one episode
MaxFlow == 1        \* largest flow a rebalancing action asks for on one edge
MaxEpisodes == 2    \* test_episodes of the driver
MaxRows == 1        \* rows of a result file of the solver

\* ---------------------------------------------------------------- scenario
nregion == 3
Region == 0 .. (nregion - 1)

\* self.edges = list(set(...)): the iteration order CPython gives for the
\* 3-region complete graph with self-loops.
edges == << <<0, 1>>, <<1, 2>>, <<2, 1>>, <<0, 0>>, <<1, 1>>,
            <<2, 0>>, <<0, 2>>, <<2, 2>>, <<1, 0>> >>

EdgeSet == {edges[k] : k \in DOMAIN edges}

\* self.G.edges: the directed complete graph has no self-loops.
GEdges == {e \in EdgeSet : e[1] # e[2]}

RECURSIVE AscSeq(_)
AscSeq(S) ==
    IF S = {} THEN << >>
    ELSE LET m == CHOOSE x \in S : \A y \in S : x <= y
         IN  << m >> \o AscSeq(S \ {m})

\* self.G[n]: the neighbours of n, in node order.
GNbrs(n) == AscSeq({j \in Region : <<n, j>> \in GEdges})

tstep == 2
BetaArg == 8
beta == BetaArg * tstep

MAX_WAIT_STEP == 12

\* Scenario.p with fix_price: one price per OD pair for the whole episode.
ScenarioPrice(e) == IF (e[2] - e[1]) % nregion = 1 THEN 40 ELSE 10

\* Travel-time tables of a scenario, indexed [edge][time].
\*   "grid"  Manhattan distance on a 3x1 grid, constant in time
\*   "peak"  time-varying: two steps for departures at time 0, one afterwards
\*   "far"   four steps between any two regions, constant in time
TableKinds == {"grid", "peak"}

Abs(x) == IF x < 0 THEN -x ELSE x

TimeTable(kind, tfv) ==
    [e \in EdgeSet |->
        [t \in 0 .. (2 * tfv) |->
            IF e[1] = e[2] THEN 0
            ELSE IF kind = "grid" THEN Abs(e[1] - e[2])
            ELSE IF kind = "far" THEN 4
            ELSE IF t = 0 THEN 2 ELSE 1]]

\* OD pairs the scenario has a positive demand rate on.
DemandEdges == {<<0, 1>>, <<0, 2>>, <<1, 0>>}

\* Agent price signals handed to match_step_simple in modes 1 and 2.
ZeroSignal == [n \in Region |-> 0]
PriceSignals == {ZeroSignal, [n \in Region |-> 1]}

\* Price vectors of a policy that is not held to a range: negative entries,
\* entries that cancel, a zero entry beside a positive one.
AnySignals ==
    PriceSignals \cup {[n \in Region |-> IF n = 1 THEN -5 ELSE IF n = 2 THEN 1 ELSE 0],
                       [n \in Region |-> 1 - n]}

\* ------------------------------------------------------------- dict helpers
EmptyDict == [x \in {} |-> 0]

Get(f, k) == IF k \in DOMAIN f THEN f[k] ELSE 0

SetKey(f, k, v) == [x \in (DOMAIN f) \cup {k} |-> IF x = k THEN v ELSE f[x]]

\* d[k] += v on a defaultdict(float)
AddKey(f, k, v) == SetKey(f, k, Get(f, k) + v)

RECURSIVE SumOver(_, _)
\* sum of f[k] over the keys k in S
SumOver(f, S) ==
    IF S = {} THEN 0
    ELSE LET x == CHOOSE y \in S : TRUE
         IN  f[x] + SumOver(f, S \ {x})

SumDict(f) == SumOver(f, DOMAIN f)

Min(a, b) == IF a <= b THEN a ELSE b
Max(a, b) == IF a >= b THEN a ELSE b

\* ------------------------------------------------------------------- state
VARIABLES
    mode,            \* AMoD.mode
    tf,              \* AMoD.tf
    ninit,           \* G.nodes[n]['accInit'] (Scenario: int(ninit) at every node)
    demandTime,      \* AMoD.demandTime[i,j][t]
    rebTime,         \* AMoD.rebTime[i,j][t]
    Gtime,           \* G.edges[i,j]['time'] of self.G = scenario.G: the graph object
                     \* of the caller's scenario, held by every AMoD built from it
    time,            \* AMoD.time
    acc,             \* AMoD.acc[n][t]
    dacc,            \* AMoD.dacc[n][t]
    rebFlow,         \* AMoD.rebFlow[i,j][t]
    paxFlow,         \* AMoD.paxFlow[i,j][t]
    demand,          \* AMoD.demand[i,j][t]
    price,           \* AMoD.price[i,j][t]
    passenger,       \* AMoD.passenger[n][t]: ids of the passengers generated at (n, t)
    queue,           \* AMoD.queue[n]: the waiting passengers, in order
    arrivals,        \* AMoD.arrivals
    servedDemand,    \* AMoD.servedDemand[i,j][t]
    unservedDemand,  \* AMoD.unservedDemand[i,j][t]
    info,            \* AMoD.info
    reward,          \* AMoD.reward (unclipped)
    ext_reward,      \* AMoD.ext_reward
    rebAction,       \* AMoD.rebAction: applied flows per edge index (aliases the caller's list)
    paxAction,       \* AMoD.paxAction: applied flows per edge index (aliases the caller's list)
    maxTrips,        \* most requests one get_random_demand draw of the scenario holds
    engine,          \* matching call of the loop: "simple" or "optimal"
    test_episodes,   \* test_agent's test_episodes
    solver,          \* what oplrun does when matching() runs it: exit status, result file
    pc,              \* position of test_agent in its episode loop
    episode,         \* number of env.reset() calls made by test_agent
    action_rl,       \* test_agent's action_rl as far as it is passed as price signal
    ret,             \* what the last environment call returned
    req              \* the action list as the caller passed it to the last call

scenarioVars == << mode, tf, ninit, demandTime, rebTime, maxTrips, engine, test_episodes,
                  solver >>
fleetVars == << time, acc, dacc, rebFlow, paxFlow, Gtime >>
demandVars == << demand, price, passenger, queue, arrivals, servedDemand, unservedDemand >>
accountVars == << info, reward, ext_reward, rebAction, paxAction >>
driverVars == << pc, episode, action_rl, ret, req >>
vars == << scenarioVars, fleetVars, demandVars, accountVars, driverVars >>

\* ------------------------------------------------------------- passengers
\* random.Random(42).shuffle(lst): the permutation depends on len(lst) only;
\* entry k of Shuffle42Perm[len+1] is the old position of the new k-th element.
Shuffle42Perm ==
    << << >>,
       << 1 >>,
       << 2, 1 >>,
       << 2, 1, 3 >>,
       << 3, 2, 4, 1 >>,
       << 4, 2, 3, 5, 1 >>,
       << 4, 2, 3, 5, 1, 6 >>,
       << 2, 4, 5, 3, 7, 1, 6 >>,
       << 4, 5, 7, 8, 3, 6, 1, 2 >> >>

Shuffle42(lst) ==
    [k \in 1 .. Len(lst) |-> lst[Shuffle42Perm[Len(lst) + 1][k]]]

\* integer square root
Isqrt(x) == CHOOSE r \in 0 .. x : r * r <= x /\ (r + 1) * (r + 1) > x

\* variant: no guard, a price <= 0 is taken for the smallest price
DemandUpdateAlways(d, p, pmax, p0) ==
    (d * Isqrt((100 * p0) \div Max(p, 1))) \div 10

\* demand_update: constant-elasticity curve d * (p / p0) ^ (-0.5), computed
\* in fixed point; a price p <= 0 leaves d as it is.
DemandUpdate(d, p, pmax, p0) ==
    IF p <= 0 THEN d
    ELSE (d * Isqrt((100 * p0) \div p)) \div 10

\* generate_passenger((o, d, t, n, p), arrivals): n new passengers, wait 0
GeneratePassenger(o, d, t, n, p, arr) ==
    [newp |-> [k \in 1 .. n |->
                  [id |-> arr + k, origin |-> o, destination |-> d,
                   time |-> t, price |-> p, wait_time |-> 0]],
     arrivals |-> arr + n]

\* Passenger.match(t): accepts with probability exp(-wait_time / 4); a
\* passenger that has not waited accepts, one that has waited may do either.
\* `accepts' is the set of passengers whose draw accepts.
PaxMatch(pax, accepts) == pax.wait_time = 0 \/ pax.id \in accepts

\* variant: the wait is not counted
UnmatchedUpdateFlat(pax) ==
    [pax |-> pax, leave |-> pax.wait_time + 1 >= MAX_WAIT_STEP]

\* Passenger.unmatched_update(): one more step waited; leave at the threshold
UnmatchedUpdate(pax) ==
    LET w == pax.wait_time + 1
    IN  [pax |-> [pax EXCEPT !.wait_time = w], leave |-> w >= MAX_WAIT_STEP]

NoPrice == [given |-> FALSE, v |-> ZeroSignal]
PriceArg(v) == [given |-> TRUE, v |-> v]

\* -------------------------------------------------------- match_step_simple
region == AscSeq(Region)

ZeroRegions == [n \in Region |-> 0]

Ids(lst) == [k \in 1 .. Len(lst) |-> lst[k].id]

\* The ledgers one call threads through its loops.
Ledgers ==
    [acc |-> acc, dacc |-> dacc, rebFlow |-> rebFlow, paxFlow |-> paxFlow,
     servedDemand |-> servedDemand, unservedDemand |-> unservedDemand,
     info |-> info, reward |-> 0, ext_reward |-> ZeroRegions,
     queue |-> queue, passenger |-> passenger, arrivals |-> arrivals,
     demand |-> demand, kept |-> << >>]

\* variant: every price vector given is applied
SignalGiven(priceArg) == priceArg.given

\* if (price is not None) and (sum(price) != 0)
SignalApplied(priceArg) == priceArg.given /\ SumOver(priceArg.v, Region) # 0

\* p = 10 + max(self.demandTime[n,j][t]*self.tstep - 6, 0)*price[n].item()
AgentPrice(tau, v) == 10 + Max(tau * tstep - 6, 0) * v

\* variant: the elastic volume is written back into the demand ledger
DemandStored(dem, ij, t, d) == [dem EXCEPT ![ij][t] = d]

\* d = self.demand[n,j][t] ... d = max(demand_update(d, p, 2*p, p_ori), 0):
\* d is a local of the call, the demand ledger keeps its entry
DemandLocal(dem, ij, t, d) == dem

RECURSIVE GenerateLoop(_, _, _, _, _, _, _, _)
\* for j in self.G[n]: draw the new passengers of (n, j, t) into the buffer
\* of (n, t) and reshuffle the buffer
GenerateLoop(buf, arr, dem, n, t, priceArg, js, k) ==
    IF k > Len(js) THEN [buf |-> buf, arrivals |-> arr, demand |-> dem]
    ELSE LET j == js[k]
             d0 == dem[<<n, j>>][t]
             p0 == price[<<n, j>>][t]
             applied == SignalApplied(priceArg)
             p == IF applied
                  THEN AgentPrice(demandTime[<<n, j>>][t], priceArg.v[n])
                  ELSE p0
             d == IF applied THEN Max(DemandUpdate(d0, p, 2 * p, p0), 0) ELSE d0
             g == GeneratePassenger(n, j, t, d, p, arr)
         IN  GenerateLoop(Shuffle42(buf \o g.newp), g.arrivals,
                          DemandLocal(dem, <<n, j>>, t, d), n, t, priceArg, js, k + 1)

\* variant: nobody ever leaves the queue unmatched
LeavesNever(un) == FALSE

\* leave = pax.unmatched_update(); if leave:
Leaves(un) == un.leave

\* variant: matching goes on without a vehicle left
HasVehicleAlways(accCurrent) == TRUE

\* if accCurrent!=0
HasVehicle(accCurrent) == accCurrent # 0

\* variant: the walked queue is kept whole
QueueAfterAll(queueCurrent, kept) == queueCurrent

\* self.queue[n] = [self.queue[n][i] for i in range(len(self.queue[n])) if i
\* not in matched_leave_index]: the passengers neither matched nor leaving
QueueAfter(queueCurrent, kept) == kept

\* variant: a passenger who stays moves to the head of the queue
KeepPaxFirst(kept, pax) == << pax >> \o kept

\* the comprehension over range(len(self.queue[n])) keeps the passengers who
\* stay in the order they were walked
KeepPax(kept, pax) == Append(kept, pax)

\* variant: the vehicle is booked to arrive at the next step
ArrivalTimeNext(t, tau) == t + 1

\* t+self.demandTime[pax.origin,pax.destination][t], the key of paxFlow and dacc
ArrivalTime(t, tau) == t + tau

RECURSIVE WalkQueue(_, _, _, _, _, _, _)
\* for i, pax in enumerate(queueCurrent): match while a vehicle is left
WalkQueue(e, n, t, q, i, accCurrent, accepts) ==
    IF i > Len(q) THEN [e |-> e, accCurrent |-> accCurrent]
    ELSE LET pax == q[i]
             od == <<pax.origin, pax.destination>>
             tau == demandTime[od][t]
             un == UnmatchedUpdate(pax)
             eUnmatched ==
                 IF Leaves(un)
                 THEN [e EXCEPT !.unservedDemand[od] = AddKey(@, t, 1),
                                !.info.unserved_demand = @ + 1]
                 ELSE [e EXCEPT !.kept = KeepPax(@, un.pax)]
             eMatched ==
                 [e EXCEPT !.paxFlow[od] = AddKey(@, ArrivalTime(t, tau), 1),
                           !.dacc[pax.destination] = AddKey(@, ArrivalTime(t, tau), 1),
                           !.servedDemand[od] = AddKey(@, t, 1),
                           !.reward = @ + pax.price - tau * beta,
                           !.ext_reward[n] = @ + Max(0, tau * beta),
                           !.info.revenue = @ + pax.price,
                           !.info.served_demand = @ + 1,
                           !.info.operating_cost = @ + tau * beta,
                           !.info.served_waiting = @ + pax.wait_time]
         IN  IF HasVehicle(accCurrent) /\ PaxMatch(pax, accepts)
             THEN WalkQueue(eMatched, n, t, q, i + 1, accCurrent - 1, accepts)
             ELSE WalkQueue(eUnmatched, n, t, q, i + 1, accCurrent, accepts)

\* variant: no generated passenger enters the queue
NewEnterqNone(buf) == << >>

\* new_enterq = [pax for pax in self.passenger[n][t] if pax.enter()]: the
\* buffer of (n, t) holds passengers created in this call, who all enter
NewEnterq(buf) == buf

\* variant: the shuffle goes over the whole queue
WalkOrderShuffled(queued, entered) == Shuffle42(queued \o entered)

\* queueCurrent = self.queue[n] + new_enterq
WalkOrder(queued, entered) == queued \o entered

\* variant: the inventory of the next step is the one the call found
AccNextKept(accBefore, accCurrent) == accBefore

\* self.acc[n][t+1] = accCurrent
AccNext(accBefore, accCurrent) == accCurrent

\* the body of `for n in self.region'
MatchRegion(e, n, t, priceArg, accepts) ==
    LET g == GenerateLoop(<< >>, e.arrivals, e.demand, n, t, priceArg, GNbrs(n), 1)
        queueCurrent == WalkOrder(e.queue[n], NewEnterq(g.buf))
        w == WalkQueue([e EXCEPT !.kept = << >>,
                                 !.arrivals = g.arrivals,
                                 !.demand = g.demand,
                                 !.passenger[n] = SetKey(@, t, Ids(g.buf))],
                       n, t, queueCurrent, 1, e.acc[n][t], accepts)
    IN  [w.e EXCEPT !.queue[n] = QueueAfter(queueCurrent, w.e.kept),
                    !.acc[n] = SetKey(@, t + 1, AccNext(e.acc[n][t], w.accCurrent))]

RECURSIVE MatchRegions(_, _, _, _, _)
MatchRegions(e, k, t, priceArg, accepts) ==
    IF k > Len(region) THEN e
    ELSE MatchRegions(MatchRegion(e, region[k], t, priceArg, accepts),
                      k + 1, t, priceArg, accepts)

MatchDone(t) == IF mode \in {0, 2} THEN FALSE ELSE tf = t + 1

\* the modes for which match_step_simple binds `done'
Modes == {0, 1, 2}

NoReturn == [op |-> "none", t |-> 0, reward |-> 0, done |-> FALSE,
             ext_reward |-> ZeroRegions]

\* an exception leaves the caller without a return value
Raise(name) == [NoReturn EXCEPT !.op = name]

\* variant: the raw reward is returned
ClipRewardRaw(r) == r

\* return ..., max(0, self.reward), ...: the matching calls floor the reward
ClipReward(r) == Max(0, r)

\* passengers whose acceptance is a draw with two outcomes
WaitedIds ==
    UNION {{queue[n][k].id : k \in {i \in 1 .. Len(queue[n]) : queue[n][i].wait_time > 0}}
           : n \in Region}

\* the end of match_step_simple: in any other mode neither branch binds
\* `done', and ext_done = [done]*self.nregion raises UnboundLocalError
MatchReturn(e, t) ==
    IF mode \in Modes
    THEN [op |-> "match_step_simple", t |-> t,
          reward |-> ClipReward(e.reward), done |-> MatchDone(t),
          ext_reward |-> e.ext_reward]
    ELSE Raise("UnboundLocalError")

\* AMoD.match_step_simple(price): enter() raises on a passenger that entered
\* before, so the buffers of the current time hold no passenger yet.
match_step_simple(priceArg, accepts) ==
    /\ \A n \in Region : IF time \in DOMAIN passenger[n] THEN passenger[n][time] = << >> ELSE TRUE
    /\ LET e == MatchRegions(Ledgers, 1, time, priceArg, accepts)
       IN  /\ acc' = e.acc
           /\ dacc' = e.dacc
           /\ paxFlow' = e.paxFlow
           /\ servedDemand' = e.servedDemand
           /\ unservedDemand' = e.unservedDemand
           /\ info' = e.info
           /\ reward' = e.reward
           /\ ext_reward' = e.ext_reward
           /\ queue' = e.queue
           /\ passenger' = e.passenger
           /\ arrivals' = e.arrivals
           /\ demand' = e.demand
           /\ ret' = MatchReturn(e, time)
    /\ UNCHANGED << scenarioVars, time, rebFlow, Gtime, price,
                    rebAction, paxAction >>

\* ------------------------------------------------------------------ pax_step
\* variant: the proposed flow is applied as it comes
PaxClipNone(available, proposed) == proposed

\* self.paxAction[k] = min(self.acc[i][t+1], paxAction[k])
PaxClip(available, proposed) == Min(available, proposed)

RECURSIVE PaxLoop(_, _, _, _)
\* for k in range(len(self.edges)): serve the flow asked for on edge k.
\* self.paxAction and the caller's paxAction are one list, so the entry the
\* assert reads is the clipped one.
PaxLoop(e, a, k, t) ==
    IF k > Len(edges) THEN [e |-> e, a |-> a]
    ELSE LET ij == edges[k]
             i == ij[1]
             j == ij[2]
         IN  IF ij \notin DOMAIN demand \/ t \notin DOMAIN demand[ij] \/ a[k] < 1
             THEN PaxLoop(e, a, k + 1, t)
             ELSE LET f == PaxClip(e.acc[i][t + 1], a[k])
                      tau == demandTime[ij][t]
                      e1 == [e EXCEPT
                               !.servedDemand[ij] = SetKey(@, t, f),
                               !.paxFlow[ij] = SetKey(@, t + tau, f),
                               !.info.operating_cost = @ + tau * beta * f,
                               !.acc[i][t + 1] = @ - f,
                               !.info.served_demand = @ + f,
                               !.dacc[j] = AddKey(@, t + tau, f),
                               !.reward = @ + f * (price[ij][t] - tau * beta),
                               !.ext_reward[i] =
                                   @ + Max(0, f * (price[ij][t] - tau * beta)),
                               !.info.revenue = @ + f * price[ij][t]]
                  IN  PaxLoop(e1, [a EXCEPT ![k] = f], k + 1, t)

\* pax_step before its loop: acc[i][t+1] = acc[i][t] for every region, and
\* four info counters start again from zero
PaxEntry(t) ==
    [Ledgers EXCEPT
       !.acc = [n \in Region |-> SetKey(acc[n], t + 1, acc[n][t])],
       !.info.served_demand = 0,
       !.info.operating_cost = 0,
       !.info.revenue = 0,
       !.info.rebalancing_cost = 0]

\* AMoD.pax_step(paxAction)
pax_step(action) ==
    LET t == time
        r == PaxLoop(PaxEntry(t), action, 1, t)
    IN  /\ acc' = r.e.acc
        /\ dacc' = r.e.dacc
        /\ paxFlow' = r.e.paxFlow
        /\ servedDemand' = r.e.servedDemand
        /\ info' = r.e.info
        /\ reward' = r.e.reward
        /\ ext_reward' = r.e.ext_reward
        /\ paxAction' = r.a
        /\ ret' = [op |-> "pax_step", t |-> t, reward |-> ClipReward(r.e.reward),
                   done |-> FALSE, ext_reward |-> r.e.ext_reward]
        /\ UNCHANGED << scenarioVars, time, rebFlow, Gtime, demand, price,
                        passenger, queue, arrivals, unservedDemand, rebAction >>

\* ------------------------------------------------------------------ reb_step
\* variant: the request is applied as it is
RebClipNone(stock, requested) == requested

\* self.rebAction[k] = min(self.acc[i][t+1], rebAction[k])
RebClip(stock, requested) == Min(stock, requested)

\* variant: the cost ignores the travel time
RebCostFlat(ij, t, f) == beta * f

\* self.rebTime[i,j][t]*self.beta*self.rebAction[k]
RebCost(ij, t, f) == rebTime[ij][t] * beta * f

RECURSIVE RebLoop(_, _, _, _)
\* for k in range(len(self.edges)): apply the rebalancing flow of edge k
RebLoop(e, a, k, t) ==
    IF k > Len(edges) THEN [e |-> e, a |-> a]
    ELSE LET ij == edges[k]
             i == ij[1]
             j == ij[2]
         IN  IF ij \notin GEdges
             THEN RebLoop(e, a, k + 1, t)
             ELSE LET f == RebClip(e.acc[i][t + 1], a[k])
                      rt == rebTime[ij][t]
                      c == RebCost(ij, t, f)
                      e1 == [e EXCEPT
                               !.rebFlow[ij] = SetKey(@, t + rt, f),
                               !.acc[i][t + 1] = @ - f,
                               !.dacc[j] = AddKey(@, t + rt, f),
                               !.info.rebalancing_cost = @ + c,
                               !.info.operating_cost = @ + c,
                               !.reward = @ - c,
                               !.ext_reward[i] = @ - c]
                  IN  RebLoop(e1, [a EXCEPT ![k] = f], k + 1, t)

RECURSIVE ArrivalLoop(_, _, _)
\* for k in range(len(self.edges)): the flows keyed t arrive in acc[j][t+1]
ArrivalLoop(e, k, t) ==
    IF k > Len(edges) THEN e
    ELSE LET ij == edges[k]
             j == ij[2]
             e1 == IF ij \in DOMAIN e.rebFlow /\ t \in DOMAIN e.rebFlow[ij]
                   THEN [e EXCEPT !.acc[j][t + 1] = @ + e.rebFlow[ij][t]]
                   ELSE e
             e2 == IF ij \in DOMAIN e1.paxFlow /\ t \in DOMAIN e1.paxFlow[ij]
                   THEN [e1 EXCEPT !.acc[j][t + 1] = @ + e1.paxFlow[ij][t]]
                   ELSE e1
         IN  ArrivalLoop(e2, k + 1, t)

\* variant: done is computed from the time before the advance
RebDoneLate(t) == tf = t

\* done = (self.tf == t+1)
RebDone(t) == tf = t + 1

\* AMoD.reb_step(rebAction)
\* variant: the clock stands still
TickNever(t) == t

\* self.time += 1
Tick(t) == t + 1

reb_step(action) ==
    LET t == time
        r == RebLoop(Ledgers, action, 1, t)
        e == ArrivalLoop(r.e, 1, t)
    IN  /\ acc' = e.acc
        /\ dacc' = e.dacc
        /\ rebFlow' = e.rebFlow
        /\ info' = e.info
        /\ reward' = e.reward
        /\ ext_reward' = e.ext_reward
        /\ rebAction' = r.a
        /\ time' = Tick(t)
        /\ Gtime' = [ij \in GEdges |-> rebTime[ij][Tick(t)]]
        /\ ret' = [op |-> "reb_step", t |-> t, reward |-> e.reward,
                   done |-> RebDone(t), ext_reward |-> e.ext_reward]
        /\ UNCHANGED << scenarioVars, paxFlow, demandVars, paxAction >>

\* ----------------------------------------------------- demand of an episode
\* Scenario.get_random_demand: tripAttr holds one (i, j, t, d, p) for every
\* edge of the scenario and every t < 2 * tf.  The Poisson draws are any
\* table of at most maxTrips requests on DemandEdges before the horizon; the
\* scenario has positive demand rates for the first MaxTf steps only.
TripCells(tfv) == DemandEdges \X (0 .. (Min(tfv, MaxTf) - 1))

TripLists(tfv, cap) == UNION {[1 .. k -> TripCells(tfv)] : k \in 0 .. cap}

DemandTable(trips, tfv) ==
    [e \in EdgeSet |->
        [t \in 0 .. (2 * tfv - 1) |->
            Cardinality({k \in DOMAIN trips : trips[k] = <<e, t>>})]]

DemandTables(tfv, cap) == {DemandTable(trips, tfv) : trips \in TripLists(tfv, cap)}

PriceTable(tfv) ==
    [e \in EdgeSet |-> [t \in 0 .. (2 * tfv - 1) |-> ScenarioPrice(e)]]

ZeroInfo ==
    [revenue |-> 0, served_demand |-> 0, unserved_demand |-> 0,
     rebalancing_cost |-> 0, operating_cost |-> 0, served_waiting |-> 0]

\* --------------------------------------------------------------------- reset
\* variant: no vehicle is seeded
InitialAccNone(n) == [t \in {0} |-> 0]

\* self.acc[n][0] = self.G.nodes[n]['accInit']
InitialAcc(n) == [t \in {0} |-> ninit]

\* variant: the entries of the episode before are kept
ClearLedgerKeep(ledger, keys) ==
    [e \in (DOMAIN ledger) \cup keys |-> IF e \in DOMAIN ledger THEN ledger[e] ELSE EmptyDict]

\* for i,j in self.demand: ledger[i,j] = defaultdict(float)
ClearLedger(ledger, keys) ==
    [e \in (DOMAIN ledger) \cup keys |-> IF e \in keys THEN EmptyDict ELSE ledger[e]]

\* AMoD.reset(): info, G.edges[...]['time'], ext_reward and the action lists
\* are not touched.
reset ==
    /\ acc' = [n \in Region |-> InitialAcc(n)]
    /\ dacc' = [n \in Region |-> EmptyDict]
    /\ rebFlow' = [e \in EdgeSet |-> EmptyDict]
    /\ paxFlow' = [e \in EdgeSet |-> EmptyDict]
    /\ passenger' = [n \in Region |-> EmptyDict]
    /\ queue' = [n \in Region |-> << >>]
    /\ arrivals' = 0
    /\ demand' \in DemandTables(tf, maxTrips)
    /\ price' = PriceTable(tf)
    /\ time' = 0
    /\ servedDemand' = ClearLedger(servedDemand, DOMAIN demand')
    /\ unservedDemand' = ClearLedger(unservedDemand, DOMAIN demand')
    /\ reward' = 0
    /\ UNCHANGED << scenarioVars, Gtime, info, ext_reward, rebAction, paxAction >>

\* ---------------------------------------------------------------------- Init
\* AMoD.__init__(scenario, mode, beta) on a scenario of the given horizon,
\* travel-time tables and demand cap
ConstructWith(tfv, kind, cap, accInit) ==
    /\ tf = tfv
    /\ ninit = accInit
    /\ demandTime = TimeTable(kind, tfv)
    /\ rebTime = TimeTable(kind, tfv)
    /\ maxTrips = cap
    /\ time = 0
    /\ passenger = [n \in Region |-> EmptyDict]
    /\ queue = [n \in Region |-> << >>]
    /\ demand \in DemandTables(tfv, cap)
    /\ price = PriceTable(tfv)
    /\ arrivals = 0
    /\ acc = [n \in Region |-> InitialAcc(n)]
    /\ dacc = [n \in Region |-> EmptyDict]
    /\ rebFlow = [e \in EdgeSet |-> EmptyDict]
    /\ paxFlow = [e \in EdgeSet |-> EmptyDict]
    /\ Gtime = [ij \in GEdges |-> rebTime[ij][0]]
    /\ servedDemand = [e \in EdgeSet |-> EmptyDict]
    /\ unservedDemand = [e \in EdgeSet |-> EmptyDict]
    /\ info = ZeroInfo
    /\ reward = 0
    /\ ext_reward = ZeroRegions
    /\ rebAction = << >>
    /\ paxAction = << >>

\* the scenarios of the episode loops below: one vehicle in every region
Construct(tfv, kind, cap) == ConstructWith(tfv, kind, cap, 1)

\* the solver where its files are not looked at: PaxLists stands for the
\* flows it returns
SolverAbstract == [exit |-> 0, exists |-> TRUE, rows |-> << >>]

\* test_agent about to start
DriverStart ==
    /\ solver = SolverAbstract
    /\ pc = "Start"
    /\ episode = 0
    /\ action_rl = ZeroSignal
    /\ ret = NoReturn
    /\ req = << >>

\* one test episode on any scenario within the bounds
Init ==
    /\ mode \in {0, 1, 2}
    /\ engine \in IF mode = 0 THEN {"simple", "optimal"} ELSE {"simple"}
    /\ test_episodes = 1
    /\ \E tfv \in 1 .. MaxTf, kind \in TableKinds : Construct(tfv, kind, MaxTrips)
    /\ DriverStart

\* -------------------------------------------------- test_agent's episode loop
AllRequest(f) == [k \in DOMAIN edges |-> f]

\* rebalancing action lists over self.edges: the same request on every edge,
\* which may exceed the inventory of a region
ActionLists == {AllRequest(f) : f \in 0 .. MaxFlow}

\* passenger flows the matching optimizer returns: at most the demand on
\* every edge, whatever the inventory
PaxLists ==
    {[k \in DOMAIN edges |-> IF edges[k] \in DemandEdges THEN g[edges[k]] ELSE 0]
        : g \in {h \in [DemandEdges -> 0 .. maxTrips] :
                    \A e \in DemandEdges : h[e] <= demand[e][time]}}

\* obs = env.reset(); action_rl = [0] * env.nregion; done = False
Reset ==
    /\ pc \in {"Start", "EpisodeEnd"}
    /\ episode < test_episodes
    /\ reset
    /\ pc' = "AwaitMatch"
    /\ episode' = episode + 1
    /\ action_rl' = ZeroSignal
    /\ ret' = [NoReturn EXCEPT !.op = "reset"]
    /\ req' = << >>

\* variant: the loop calls the matching again
AfterMatchAgain == "AwaitMatch"

\* what follows the matching call in the loop body: reb_step in modes 0 and
\* 2, matching_update in mode 1
AfterMatch == IF mode = 1 THEN "AwaitUpdate" ELSE "AwaitRebalance"

\* variant: the loop ends after its first round
AfterRebStop(done) == "EpisodeEnd"

\* while not done: after reb_step the loop goes round again or ends
AfterReb(done) == IF done THEN "EpisodeEnd" ELSE "AwaitMatch"

\* env.match_step_simple() in mode 0, env.match_step_simple(action_rl) in
\* modes 1 and 2, then action_rl = self.select_action(o)
MatchStep ==
    /\ pc = "AwaitMatch"
    /\ mode \in Modes
    /\ engine = "simple"
    /\ \E accepts \in SUBSET WaitedIds :
         match_step_simple(IF mode = 0 THEN NoPrice ELSE PriceArg(action_rl), accepts)
    /\ IF mode = 0 THEN action_rl' = action_rl ELSE action_rl' \in PriceSignals
    /\ pc' = AfterMatch
    /\ req' = << >>
    /\ UNCHANGED episode

\* env.pax_step(...): the other matching call of mode 0
PaxStep ==
    /\ pc = "AwaitMatch"
    /\ engine = "optimal"
    /\ \E a \in PaxLists :
         /\ pax_step(a)
         /\ req' = a
    /\ pc' = "AwaitRebalance"
    /\ UNCHANGED << episode, action_rl >>

\* env.reb_step(rebAction); the loop ends when it returns done
RebStep ==
    /\ pc = "AwaitRebalance"
    /\ \E a \in ActionLists :
         /\ reb_step(a)
         /\ req' = a
    /\ pc' = AfterReb(ret'.done)
    /\ UNCHANGED << episode, action_rl >>

\* env.matching_update() in mode 1: AMoD defines no such method, the call
\* raises AttributeError and test_agent ends there.
MatchingUpdate ==
    /\ pc = "AwaitUpdate"
    /\ pc' = "Raised"
    /\ UNCHANGED << scenarioVars, fleetVars, demandVars, accountVars,
                    episode, action_rl, ret, req >>

Next == Reset \/ MatchStep \/ PaxStep \/ RebStep \/ MatchingUpdate

Spec == Init /\ [][Next]_vars

\* else: raise ValueError("Only mode 0, 1, and 2 are allowed"): the dispatch
\* of test_agent in any other mode, after env.reset()
DispatchError ==
    /\ pc = "AwaitMatch"
    /\ mode \notin Modes
    /\ pc' = "Raised"
    /\ ret' = Raise("ValueError")
    /\ UNCHANGED << scenarioVars, fleetVars, demandVars, accountVars,
                    episode, action_rl, req >>

\* env.match_step_simple() called on an environment of any other mode by a
\* caller that does not dispatch on the mode: AMoD.__init__ stores the mode
\* unchecked and the call runs up to its last lines
DirectMatch ==
    /\ pc = "AwaitMatch"
    /\ mode \notin Modes
    /\ \E accepts \in SUBSET WaitedIds : match_step_simple(NoPrice, accepts)
    /\ pc' = "Raised"
    /\ req' = << >>
    /\ UNCHANGED << episode, action_rl >>

NextModes == Next \/ DispatchError \/ DirectMatch

\* one episode on an environment of a supported mode or of mode 3
InitModes ==
    /\ mode \in Modes \cup {3}
    /\ engine \in IF mode = 0 THEN {"simple", "optimal"} ELSE {"simple"}
    /\ test_episodes = 1
    /\ \E tfv \in 1 .. MaxTf, kind \in TableKinds : Construct(tfv, kind, MaxTrips)
    /\ DriverStart

SpecModes == InitModes /\ [][NextModes]_vars

\* env.match_step_simple() of mode 0 and env.match_step_simple(action_rl) of
\* mode 2 with a policy whose select_action may return any of AnySignals
PricedMatch ==
    /\ pc = "AwaitMatch"
    /\ mode \in {0, 2}
    /\ \E accepts \in SUBSET WaitedIds :
         match_step_simple(IF mode = 0 THEN NoPrice ELSE PriceArg(action_rl), accepts)
    /\ IF mode = 0 THEN action_rl' = action_rl ELSE action_rl' \in AnySignals
    /\ pc' = AfterMatch
    /\ req' = IF mode = 0 THEN << >> ELSE action_rl
    /\ UNCHANGED episode

NextPrice == Reset \/ PricedMatch \/ RebStep

\* one episode of mode 0 or 2 on a scenario with trips of four steps and up
\* to MaxTrips + 1 requests
InitPrice ==
    /\ mode \in {0, 2}
    /\ engine = "simple"
    /\ test_episodes = 1
    /\ Construct(MaxTf, "far", MaxTrips + 1)
    /\ DriverStart

SpecPrice == InitPrice /\ [][NextPrice]_vars

\* env.reb_step(rebAction) with the rebalancing flows all zero: desiredAcc
\* asks for the vehicles where they are
IdleRebStep ==
    /\ pc = "AwaitRebalance"
    /\ reb_step(AllRequest(0))
    /\ req' = AllRequest(0)
    /\ pc' = AfterReb(ret'.done)
    /\ UNCHANGED << episode, action_rl >>

NextQueue == Reset \/ MatchStep \/ IdleRebStep

\* one episode of mode 2 without rebalancing, long enough for a passenger to
\* wait MAX_WAIT_STEP steps, with up to MaxTrips + 1 requests
InitQueue ==
    /\ mode = 2
    /\ engine = "simple"
    /\ test_episodes = 1
    /\ ConstructWith(MAX_WAIT_STEP + MaxTf, "grid", MaxTrips + 1, 1)
    /\ DriverStart

SpecQueue == InitQueue /\ [][NextQueue]_vars

\* one episode of mode 2 on a scenario without vehicles, with up to
\* MaxTrips + 1 requests
InitFifo ==
    /\ mode = 2
    /\ engine = "simple"
    /\ test_episodes = 1
    /\ \E kind \in TableKinds : ConstructWith(MaxTf, kind, MaxTrips + 1, 0)
    /\ DriverStart

SpecFifo == InitFifo /\ [][NextQueue]_vars

\* the loop body of modes 0 and 2: match_step_simple, then reb_step
NextLoop == Reset \/ MatchStep \/ RebStep

\* one test episode of mode 0 or 2 on any scenario within the bounds
InitLoop ==
    /\ mode \in {0, 2}
    /\ engine = "simple"
    /\ test_episodes = 1
    /\ \E tfv \in 1 .. MaxTf, kind \in TableKinds : Construct(tfv, kind, MaxTrips)
    /\ DriverStart

\* test_agent has a call to make: the reset() of an episode still to run, or
\* the next call of the loop body
Runnable ==
    \/ pc \in {"AwaitMatch", "AwaitRebalance"}
    \/ pc \in {"Start", "EpisodeEnd"} /\ episode < test_episodes

\* test_agent goes on to its next call; every call moves pc
LoopAdvance ==
    /\ Runnable
    /\ pc' \in {"AwaitMatch", "AwaitRebalance", "EpisodeEnd"}
    /\ pc' # pc

\* test_agent is one sequential thread: a call that is due is made
SpecLoop == InitLoop /\ [][NextLoop]_vars /\ WF_pc(LoopAdvance)

\* ---------------------------------------------- matching(): the solver call
\* A result file is a sequence of rows `key=[(..)(..)];'; a row is its key
\* and its list of tuples, a tuple the sequence of its comma-separated fields.
FlowRow(values) == [key |-> "flow", values |-> values]

Rows ==
    {FlowRow(<< >>),
     FlowRow(<< <<1, 0, 1>> >>),
     FlowRow(<< <<0, 1, 1>>, <<1, 0, 1>> >>),
     FlowRow(<< <<1, 0>> >>),
     [key |-> "status", values |-> << >>]}

Files == UNION {[1 .. n -> Rows] : n \in 0 .. MaxRows}

\* what oplrun may do: fail, end without a result file, or write one
SolverOutcomes ==
    {[exit |-> 1, exists |-> FALSE, rows |-> << >>],
     [exit |-> 0, exists |-> FALSE, rows |-> << >>]}
        \cup {[exit |-> 0, exists |-> TRUE, rows |-> f] : f \in Files}

RECURSIVE ParseValues(_, _, _)
\* for v in values: if len(v) == 0: continue; i,j,f = v.split(',');
\* flow[int(i),int(j)] = float(f)
ParseValues(values, m, p) ==
    IF m > Len(values) \/ p.raised THEN p
    ELSE LET v == values[m]
         IN  IF Len(v) = 0 THEN ParseValues(values, m + 1, p)
             ELSE IF Len(v) # 3 THEN [p EXCEPT !.raised = TRUE]
             ELSE ParseValues(values, m + 1,
                              [p EXCEPT !.flow = SetKey(@, <<v[1], v[2]>>, v[3])])

RECURSIVE ParseRows(_, _, _)
\* for row in file: ... if item[0] == 'flow': rows of another key are skipped
ParseRows(rows, k, p) ==
    IF k > Len(rows) \/ p.raised THEN p
    ELSE ParseRows(rows, k + 1,
                   IF rows[k].key = "flow" THEN ParseValues(rows[k].values, 1, p) ELSE p)

\* AMoD.matching(): subprocess.check_call raises CalledProcessError on a
\* non-zero exit, open(resfile) raises FileNotFoundError, the unpacking of a
\* tuple without three fields raises ValueError; otherwise
\* paxAction = [flow[i,j] if (i,j) in flow else 0 for i,j in self.edges]
matching(o) ==
    IF o.exit # 0 THEN [raised |-> TRUE, error |-> "CalledProcessError", paxAction |-> << >>]
    ELSE IF ~o.exists THEN [raised |-> TRUE, error |-> "FileNotFoundError", paxAction |-> << >>]
    ELSE LET p == ParseRows(o.rows, 1, [raised |-> FALSE, flow |-> EmptyDict])
         IN  IF p.raised
             THEN [raised |-> TRUE, error |-> "ValueError", paxAction |-> << >>]
             ELSE [raised |-> FALSE, error |-> "none",
                   paxAction |-> [k \in DOMAIN edges |-> Get(p.flow, edges[k])]]

\* pax_step() left by an exception of matching(): the lines before the call
\* have run
pax_step_raised(error) ==
    LET e == PaxEntry(time)
    IN  /\ acc' = e.acc
        /\ info' = e.info
        /\ reward' = 0
        /\ ext_reward' = ZeroRegions
        /\ ret' = Raise(error)
        /\ UNCHANGED << scenarioVars, time, dacc, rebFlow, paxFlow, Gtime, demandVars,
                        rebAction, paxAction >>

\* env.pax_step(CPLEXPATH=..., PATH=...): paxAction is None and the flows
\* come from matching()
SolvedPaxStep ==
    /\ pc = "AwaitMatch"
    /\ engine = "optimal"
    /\ LET m == matching(solver)
       IN  IF m.raised
           THEN /\ pax_step_raised(m.error)
                /\ pc' = "Raised"
                /\ req' = << >>
           ELSE /\ pax_step(m.paxAction)
                /\ pc' = "AwaitRebalance"
                /\ req' = m.paxAction
    /\ UNCHANGED << episode, action_rl >>

NextSolver == Reset \/ SolvedPaxStep \/ RebStep

\* one episode of mode 0 whose matching calls run the solver
InitSolver ==
    /\ mode = 0
    /\ engine = "optimal"
    /\ test_episodes = 1
    /\ solver \in SolverOutcomes
    /\ \E tfv \in 1 .. MaxTf, kind \in TableKinds : Construct(tfv, kind, MaxTrips)
    /\ pc = "Start"
    /\ episode = 0
    /\ action_rl = ZeroSignal
    /\ ret = NoReturn
    /\ req = << >>

SpecSolver == InitSolver /\ [][NextSolver]_vars

\* several test episodes in a row, on scenarios of horizon 1 with at most one
\* request per episode
InitEpisodes ==
    /\ mode \in {0, 1, 2}
    /\ engine \in IF mode = 0 THEN {"simple", "optimal"} ELSE {"simple"}
    /\ test_episodes = MaxEpisodes
    /\ \E kind \in TableKinds : Construct(1, kind, 1)
    /\ DriverStart

SpecEpisodes == InitEpisodes /\ [][Next]_vars

\* one test episode on a scenario without vehicles, long enough for a
\* passenger to wait MAX_WAIT_STEP steps; at most one request per episode
InitWait ==
    /\ mode \in {0, 1, 2}
    /\ engine \in IF mode = 0 THEN {"simple", "optimal"} ELSE {"simple"}
    /\ test_episodes = 1
    /\ \E kind \in TableKinds : ConstructWith(MAX_WAIT_STEP + 1, kind, 1, 0)
    /\ DriverStart

SpecWait == InitWait /\ [][Next]_vars

\* ============================================================== properties
MatchOps == {"match_step_simple", "pax_step"}

\* the step is a matching-phase call of the driver
MatchCalled == pc = "AwaitMatch" /\ ret'.op \in MatchOps /\ << pc, ret >>' # << pc, ret >>

\* the step is a reb_step call: nothing else advances time
RebCalled == time' = time + 1

\* vehicles a flow ledger holds that reb_step has not folded into acc yet:
\* its entries keyed at the current time or later
FlowPending(flow) ==
    SumOver([e \in EdgeSet |-> SumOver(flow[e], {k \in DOMAIN flow[e] : k >= time})],
            EdgeSet)

\* idle vehicles: acc[r][time+1] once the matching phase has written it,
\* acc[r][time] before
Idle ==
    SumOver([r \in Region |-> IF (time + 1) \in DOMAIN acc[r]
                              THEN acc[r][time + 1] ELSE acc[r][time]], Region)

NoNonZero(f) == \A k \in DOMAIN f : f[k] = 0

\* C1: vehicle conservation.  Between calls, the idle vehicles plus the
\* vehicles of paxFlow and rebFlow not yet folded into acc add up to the sum
\* of the initial accInit values, for any travel times and any non-negative
\* actions.
C1_Conservation ==
    Idle + FlowPending(rebFlow) + FlowPending(paxFlow) = nregion * ninit

\* the same balance where the travel times do not vary with time
C1_ConservationConstantTimes ==
    (\A e \in GEdges : rebTime[e][0] = rebTime[e][1]) => C1_Conservation

\* indices of the edges of G that leave region i
OutEdges(i) == {k \in DOMAIN edges : edges[k] \in GEdges /\ edges[k][1] = i}

\* C2: flow clipping.  A reb_step called at time t sends out of region i at
\* most the acc[i][t+1] it found on entry, whatever was requested, and each
\* applied flow is min(what is left of acc[i][t+1], the request).
C2_FlowClipping ==
    [][RebCalled =>
          \A i \in Region :
             /\ SumOver(rebAction', OutEdges(i)) <= acc[i][time + 1]
             /\ \A k \in OutEdges(i) :
                   rebAction'[k] =
                      Min(acc[i][time + 1]
                             - SumOver(rebAction', {m \in OutEdges(i) : m < k}),
                          req'[k])
    ]_vars

\* a reb_step has sent a region's vehicles out and cut the request of a
\* later edge of that region
C2_Witness ==
    /\ ret.op = "reb_step"
    /\ \E i \in Region :
          /\ SumOver(rebAction, OutEdges(i)) > 0
          /\ \E k \in OutEdges(i) : rebAction[k] < req[k]

\* C3: every defined acc[region][t] is an integer >= 0 in every reachable
\* state; no completed call leaves a vehicle count negative.
C3_NonNegative ==
    \A r \in Region : \A t \in DOMAIN acc[r] : acc[r][t] \in Nat

\* matching has used up a region's vehicles and left a passenger waiting
C3_Witness ==
    /\ ret.op = "match_step_simple"
    /\ \E n \in Region : acc[n][time + 1] = 0 /\ queue[n] # << >>

\* vehicles the matching call of this step dispatched on edge e
Dispatched(e) == Get(servedDemand'[e], time) - Get(servedDemand[e], time)

\* fares the matching call of this step collected; pax_step restarts the
\* revenue counter
RevenueGain == info'.revenue - (IF ret'.op = "pax_step" THEN 0 ELSE info.revenue)

\* C4: reward floor.  A matching-phase call returns max(0, raw), never a
\* negative number, where raw is the sum over the vehicles it dispatched of
\* price - travelTime * beta.
C4_RewardFloor ==
    [][MatchCalled =>
          /\ reward' = RevenueGain
                          - SumOver([e \in EdgeSet |->
                                       Dispatched(e) * demandTime[e][time] * beta],
                                    EdgeSet)
          /\ ret'.reward = Max(0, reward')
          /\ ret'.reward >= 0
    ]_vars

\* a matching call with a negative raw reward has returned 0
C4_Witness == ret.op \in MatchOps /\ reward < 0 /\ ret.reward = 0

\* C5: reb_step returns the unclipped -sum of rebTime * beta * applied flow
\* over the edges, which is <= 0 and is the negative of what the call added
\* to info['rebalancing_cost'] and to info['operating_cost'].
C5_RebReward ==
    [][RebCalled =>
          /\ ret'.reward =
                - SumOver([k \in DOMAIN edges |->
                             IF edges[k] \in GEdges
                             THEN rebTime[edges[k]][time] * beta * rebAction'[k]
                             ELSE 0],
                          DOMAIN edges)
          /\ ret'.reward <= 0
          /\ ret'.reward = - (info'.rebalancing_cost - info.rebalancing_cost)
          /\ ret'.reward = - (info'.operating_cost - info.operating_cost)
    ]_vars

\* a reb_step has moved vehicles over an edge of travel time 2 and returned a
\* negative reward
C5_Witness ==
    /\ ret.op = "reb_step"
    /\ ret.reward < 0
    /\ \E k \in DOMAIN edges :
          edges[k] \in GEdges /\ rebAction[k] > 0 /\ rebTime[edges[k]][ret.t] = 2

\* C6: terminal condition.  In modes 0 and 2 reb_step returns done exactly
\* when the advanced time is tf, the matching calls return done = false, and
\* the first call to return done is the tf-th reb_step after reset.
C6_Terminal ==
    mode \in {0, 2} =>
        /\ ret.op = "reb_step" => (ret.done <=> time = tf)
        /\ ret.op \in MatchOps => ~ ret.done
        /\ ret.done => ret.op = "reb_step" /\ ret.t = tf - 1
        /\ time < tf => ~ ret.done

\* the second reb_step of an episode of horizon 2 has returned done
C6_Witness == mode \in {0, 2} /\ ret.done /\ tf = 2 /\ time = 2

\* what the loop of modes 0 and 2 allows a step to be
PhaseStep ==
    mode \in {0, 2} =>
        /\ RebCalled =>
              /\ pc = "AwaitRebalance"
              /\ pc' \in {"AwaitMatch", "EpisodeEnd"}
              /\ ret.op \in MatchOps /\ ret.t = time
              /\ \A i \in Region : (time + 1) \in DOMAIN acc[i]
        /\ MatchCalled =>
              /\ pc' = "AwaitRebalance"
              /\ (ret.op = "reset" /\ time = 0) \/ (ret.op = "reb_step" /\ ret.t + 1 = time)
              /\ \A i \in Region : (time + 1) \notin DOMAIN acc[i]
        /\ pc' # pc =>
              \/ pc \in {"Start", "EpisodeEnd"} /\ pc' = "AwaitMatch"
              \/ pc = "AwaitMatch" /\ pc' = "AwaitRebalance"
              \/ pc = "AwaitRebalance" /\ pc' \in {"AwaitMatch", "EpisodeEnd"}

\* C7: phase ordering.  In modes 0 and 2 a reb_step at time t follows one
\* matching call at the same t, which has written acc[*][t+1]; a matching call
\* follows reset or the reb_step of the time before; the driver alternates
\* between awaiting the match and awaiting the rebalancing.
C7_PhaseOrdering == [][PhaseStep]_vars

\* the matching call of the second iteration is done and reb_step is awaited
C7_Witness == mode \in {0, 2} /\ pc = "AwaitRebalance" /\ time = 1

\* C8: the three modes keep the same two-phase semantics.  In every mode an
\* iteration that has done its match phase at time t goes on to fold the
\* arrivals and advance time by one, and a call returns done exactly when
\* time reaches tf.
C8_ModesAgree ==
    [][/\ (pc \in {"AwaitRebalance", "AwaitUpdate"} /\ pc' # pc) =>
             /\ time' = time + 1
             /\ ret'.done <=> time' = tf
       /\ MatchCalled => (ret'.done => time' = tf)
    ]_vars

\* C9: reset() reinitializes the ledgers after any steps: time is 0, acc[r]
\* is exactly {0: accInit}, queues and passenger buffers are empty, and dacc,
\* rebFlow, paxFlow, servedDemand, unservedDemand hold no non-zero entry.
C9_ResetClears ==
    ret.op = "reset" =>
        /\ time = 0
        /\ \A r \in Region :
              /\ acc[r] = [t \in {0} |-> ninit]
              /\ queue[r] = << >>
              /\ \A t \in DOMAIN passenger[r] : passenger[r][t] = << >>
              /\ NoNonZero(dacc[r])
        /\ \A e \in DOMAIN rebFlow : NoNonZero(rebFlow[e])
        /\ \A e \in DOMAIN paxFlow : NoNonZero(paxFlow[e])
        /\ \A e \in DOMAIN servedDemand : NoNonZero(servedDemand[e])
        /\ \A e \in DOMAIN unservedDemand : NoNonZero(unservedDemand[e])

\* reset() has returned for the second episode, after an episode that served
\* a passenger
C9_Witness == ret.op = "reset" /\ episode = 2 /\ info.served_demand > 0

ZeroDemandAt0 == \A e \in EdgeSet : demand[e][0] = 0

MatchingDone == \A n \in Region : (time + 1) \in DOMAIN acc[n]

\* matching calls made since time t0, the call of time t0 included
CallsSince(t0) == time - t0 + (IF MatchingDone THEN 1 ELSE 0)

\* the passengers generated so far: region, request time, position in the
\* buffer of that region and time
Generated ==
    {c \in Region \X (0 .. time) \X (1 .. (2 * MaxTrips)) :
        /\ c[2] \in DOMAIN passenger[c[1]]
        /\ c[3] \in DOMAIN passenger[c[1]][c[2]]}

UnservedTotal == SumOver([e \in EdgeSet |-> SumDict(unservedDemand[e])], EdgeSet)

ServedTotal == SumOver([e \in EdgeSet |-> SumDict(servedDemand[e])], EdgeSet)

\* C11: scenario B.  Where no region ever holds a vehicle, a passenger stays
\* in the queue of its origin through its first MAX_WAIT_STEP - 1 unmatched
\* updates, with its wait counting them, leaves the queue at the update
\* number MAX_WAIT_STEP = 12, and is counted once in unservedDemand.
C11_ScenarioB ==
    ninit = 0 =>
        /\ \A c \in Generated :
              LET n == c[1]
                  id == passenger[n][c[2]][c[3]]
                  u == CallsSince(c[2])
              IN  IF u < MAX_WAIT_STEP
                  THEN \E k \in DOMAIN queue[n] :
                          queue[n][k].id = id /\ queue[n][k].wait_time = u
                  ELSE \A k \in DOMAIN queue[n] : queue[n][k].id # id
        /\ UnservedTotal = Cardinality({c \in Generated : CallsSince(c[2]) >= MAX_WAIT_STEP})
        /\ MAX_WAIT_STEP = 12

\* the matching call at time 11 has removed the passenger requested at time
\* 0 from the queue and counted it as unserved
C11_Witness ==
    /\ ninit = 0 /\ time = 11 /\ MatchingDone
    /\ \E n \in Region : 0 \in DOMAIN passenger[n] /\ passenger[n][0] # << >>
    /\ \A n \in Region : queue[n] = << >>
    /\ UnservedTotal = 1

\* requests drawn for edge e at time k
RequestedAt(e, k) == IF k \in DOMAIN demand[e] THEN demand[e][k] ELSE 0

\* C12: the served and unserved ledgers are indexed by request time.  Every
\* unit that matching records under servedDemand[e][k] or unservedDemand[e][k]
\* is a passenger who requested edge e at time k, whenever it was matched or
\* gave up; without a price signal these are at most the requests drawn.
C12_RequestTimeIndex ==
    engine = "simple" =>
        \A e \in EdgeSet :
            \A k \in (DOMAIN servedDemand[e]) \cup (DOMAIN unservedDemand[e]) :
                LET units == Get(servedDemand[e], k) + Get(unservedDemand[e], k)
                IN  /\ units > 0 => RequestedAt(e, k) > 0
                    /\ mode = 0 => units <= RequestedAt(e, k)

\* ids of all passengers generated in the episode
AllIds ==
    UNION {UNION {{passenger[n][t][i] : i \in DOMAIN passenger[n][t]}
                  : t \in DOMAIN passenger[n]} : n \in Region}

\* ids of the passengers waiting in some queue
QueuedIds == UNION {{queue[n][k].id : k \in DOMAIN queue[n]} : n \in Region}

QueuedTotal == SumOver([n \in Region |-> Len(queue[n])], Region)

LedgerUnitsFrom(served, unserved, n) ==
    SumOver([e \in EdgeSet |-> IF e[1] = n THEN SumDict(served[e]) + SumDict(unserved[e]) ELSE 0],
            EdgeSet)

\* what a match_step_simple call leaves in the queue of every region
QueueStep ==
    (MatchCalled /\ engine = "simple") =>
        \A n \in Region :
            LET walked == Ids(queue[n]) \o passenger'[n][time]
                after == Ids(queue'[n])
                Stays(id) == \E k \in DOMAIN after : after[k] = id
            IN  /\ after = SelectSeq(walked, Stays)
                /\ Len(walked) - Len(after)
                      = LedgerUnitsFrom(servedDemand', unservedDemand', n)
                          - LedgerUnitsFrom(servedDemand, unservedDemand, n)

ArrivingAt(reb, pax, j, k) ==
    SumOver([e \in EdgeSet |->
                IF e[2] = j
                THEN (IF e \in DOMAIN reb THEN Get(reb[e], k) ELSE 0)
                       + (IF e \in DOMAIN pax THEN Get(pax[e], k) ELSE 0)
                ELSE 0],
            EdgeSet)

\* vehicles the applied rebalancing action takes out of region i
RebalancedOut(a, i) ==
    SumOver([k \in DOMAIN edges |->
                IF edges[k][1] = i /\ edges[k] \in GEdges THEN a[k] ELSE 0],
            DOMAIN edges)

FoldStep ==
    RebCalled =>
        \A j \in Region :
            acc'[j][time + 1]
                = acc[j][time + 1] - RebalancedOut(rebAction', j)
                    + ArrivingAt(rebFlow', paxFlow', j, time + 1)

\* C15: arrival folding.  reb_step called at time t adds to acc[j][t+1]
\* exactly the rebFlow and paxFlow entries of the edges into j whose arrival
\* key is t + 1, after taking out the vehicles it rebalances away, so that a
\* vehicle leaving at t with travel time tau >= 1 is counted in
\* acc[j][t + tau].
C15_ArrivalFolding ==
    [][FoldStep]_vars

\* the step is a call on the environment: reset, matching or rebalancing
EnvCalled == ret' # ret \/ time' # time \/ episode' # episode

ScenarioKept ==
    EnvCalled => /\ Gtime' = Gtime
                 /\ demandTime' = demandTime
                 /\ rebTime' = rebTime
                 /\ ninit' = ninit

\* C16: the environment works on its own deep copy.  No reset, matching or
\* rebalancing call changes what the caller's scenario holds: the 'time'
\* attribute of the edges of its graph G, its travel-time tables and the
\* initial inventory of its nodes.
C16_ScenarioUntouched ==
    [][ScenarioKept]_vars

\* C17: instances built from one scenario share no mutable state.  A second
\* instance that has made no call still reads on the edges of its graph the
\* 'time' attributes of its own current time 0, whatever calls this
\* instance has made.
C17_InstancesIsolated ==
    Gtime = [ij \in GEdges |-> rebTime[ij][0]]

\* the step is the reset() that opens an episode after the first
ResetAgain == pc = "EpisodeEnd" /\ ret'.op = "reset" /\ episode' = episode + 1

SameDraws == ResetAgain => demand' = demand /\ price' = price

\* C18: determinism.  With the seed fixed once, by the scenario, every run
\* that calls reset() and then applies an action sequence starts from the
\* same demand draws: the demand and price ledgers a reset() fills are those
\* the reset() of the run before filled.
C18_Determinism ==
    [][SameDraws]_vars

\* no entry of the ledger is lost or lowered by the step
LedgerGrows(before, after) ==
    \A e \in DOMAIN before :
        /\ e \in DOMAIN after
        /\ \A k \in DOMAIN before[e] :
              /\ k \in DOMAIN after[e]
              /\ after[e][k] >= before[e][k]

StepFrame ==
    (MatchCalled \/ RebCalled) =>
        /\ demand' = demand
        /\ price' = price
        /\ demandTime' = demandTime
        /\ rebTime' = rebTime
        /\ LedgerGrows(servedDemand, servedDemand')
        /\ LedgerGrows(unservedDemand, unservedDemand')

\* C19: within an episode match_step_simple, pax_step and reb_step leave the
\* demand and price ledgers and the demandTime and rebTime tables as they
\* are, also when a price vector is supplied and the elastic volume differs
\* from the demand drawn, and no entry of servedDemand or unservedDemand
\* decreases.
C19_StepFrame ==
    [][StepFrame]_vars

\* passengers generated out of region n at time t
GeneratedAt(n, t) == IF t \in DOMAIN passenger[n] THEN Len(passenger[n][t]) ELSE 0

\* demand drawn for the trips out of region n at time t
DemandFrom(n, t) ==
    SumOver([e \in EdgeSet |-> IF e[1] = n THEN demand[e][t] ELSE 0], EdgeSet)

\* a matching call with a price vector has generated more passengers in a
\* region than the demand ledger holds for it
C19_Witness ==
    /\ mode = 2 /\ ret.op = "match_step_simple" /\ pc = "AwaitRebalance"
    /\ \E n \in Region : GeneratedAt(n, time) > DemandFrom(n, time)

\* the step is a pax_step call of the driver
PaxCalled == MatchCalled /\ ret'.op = "pax_step"

PaxClipStep ==
    PaxCalled =>
        LET t == time
            Processed == {k \in DOMAIN edges :
                             /\ edges[k] \in DOMAIN demand
                             /\ t \in DOMAIN demand[edges[k]]
                             /\ req'[k] >= 1}
            From(i) == {k \in Processed : edges[k][1] = i}
            Arrival(k) == t + demandTime[edges[k]][t]
        IN  /\ \A i \in Region :
                  /\ \A k \in From(i) :
                        paxAction'[k] =
                            Min(acc[i][t] - SumOver(paxAction', {m \in From(i) : m < k}),
                                req'[k])
                  /\ SumOver(paxAction', From(i)) <= acc[i][t]
                  /\ acc'[i][t + 1] = acc[i][t] - SumOver(paxAction', From(i))
                  /\ acc'[i][t + 1] >= 0
            /\ \A k \in Processed :
                  /\ Get(servedDemand'[edges[k]], t) = paxAction'[k]
                  /\ Get(paxFlow'[edges[k]], Arrival(k)) = paxAction'[k]
            /\ \A j \in Region :
                  \A key \in DOMAIN dacc'[j] :
                      Get(dacc'[j], key) - Get(dacc[j], key)
                          = SumOver(paxAction',
                                    {k \in Processed : edges[k][2] = j /\ Arrival(k) = key})

Gain(before, after, e, k) == Get(after[e], k) - Get(before[e], k)

\* the flow per edge that match_step_simple dispatches from the current state
\* without a price signal, every passenger accepting
GreedyLedgers == MatchRegions(Ledgers, 1, time, NoPrice, WaitedIds)

GreedyFlow ==
    [k \in DOMAIN edges |-> Gain(servedDemand, GreedyLedgers.servedDemand, edges[k], time)]

\* pax_step given that same flow from the same state
OptimalLedgers == PaxLoop(PaxEntry(time), GreedyFlow, 1, time).e

\* C21: the two engines do the same accounting.  From a state where the
\* matching is due and nobody is queued, match_step_simple and pax_step
\* given the flow match_step_simple dispatches return the same reward, the
\* same per-region auxiliary reward, and change acc, paxFlow, dacc,
\* servedDemand and the info counters revenue, served_demand and
\* operating_cost alike.
C21_EnginesAgree ==
    (pc = "AwaitMatch" /\ QueuedTotal = 0) =>
        LET g == GreedyLedgers
            o == OptimalLedgers
        IN  /\ ClipReward(g.reward) = ClipReward(o.reward)
            /\ g.ext_reward = o.ext_reward
            /\ \A n \in Region : g.acc[n][time + 1] = o.acc[n][time + 1]
            /\ g.paxFlow = o.paxFlow
            /\ g.dacc = o.dacc
            /\ g.servedDemand = o.servedDemand
            /\ g.info.revenue - info.revenue = o.info.revenue - info.revenue
            /\ g.info.served_demand - info.served_demand
                  = o.info.served_demand - info.served_demand
            /\ g.info.operating_cost - info.operating_cost
                  = o.info.operating_cost - info.operating_cost

\* the step ends a call made on an environment of an unsupported mode
ModeFailure == pc = "AwaitMatch" /\ mode \notin Modes /\ pc' = "Raised"

ModeErrorStep ==
    ModeFailure =>
        /\ ret'.op = "ValueError"
        /\ UNCHANGED << acc, dacc, rebFlow, paxFlow, queue, passenger, arrivals,
                        servedDemand, unservedDemand, info >>

\* C22: an unsupported mode is a configuration error.  A step asked of an
\* environment whose mode is not 0, 1 or 2 ends in the descriptive error of
\* the dispatch before acc, the queues, the ledgers or info have changed.
C22_ModeError ==
    [][ModeErrorStep]_vars

\* the result file holds a well-formed row flow=[(i,j,f)...];
HasFlowLine(rows) ==
    \E k \in DOMAIN rows :
        /\ rows[k].key = "flow"
        /\ \A m \in DOMAIN rows[k].values : Len(rows[k].values[m]) = 3

\* the solver failed: non-zero exit, no result file, or no well-formed row
SolverFailed == solver.exit # 0 \/ ~solver.exists \/ ~HasFlowLine(solver.rows)

\* the step is a pax_step call that runs the solver
SolverCalled == pc = "AwaitMatch" /\ engine = "optimal" /\ pc' # pc

SolverStep ==
    (SolverCalled /\ SolverFailed) =>
        /\ pc' = "Raised"
        /\ ret'.op \notin {"pax_step", "none"}
        /\ UNCHANGED << paxFlow, dacc, servedDemand, paxAction >>

\* C23: a failure of the external solver is fatal.  When oplrun exits
\* non-zero, leaves no result file, or writes a file without a well-formed
\* row flow=[(i,j,f)...];, matching() raises and pax_step applies no flow,
\* not even an all-zero one.
C23_SolverFailure ==
    [][SolverStep]_vars

\* the step is a match_step_simple call whose price vector is applied
PricedCalled ==
    /\ MatchCalled /\ ret'.op = "match_step_simple"
    /\ mode = 2 /\ SumOver(action_rl, Region) # 0

\* the price of the agent on edge e in a call at the current time
PriceOn(e) == AgentPrice(demandTime[e][time], action_rl[e[1]])

\* every request out of region n meets the reference price or a price <= 0
UnchangedCase(n) ==
    \A e \in EdgeSet :
        (e[1] = n /\ demand[e][time] > 0) =>
            (PriceOn(e) = price[e][time] \/ PriceOn(e) <= 0)

ElasticStep ==
    PricedCalled =>
        \A n \in Region :
            UnchangedCase(n) => Len(passenger'[n][time]) = DemandFrom(n, time)

\* C24: scenario C.  The price-elasticity demand update returns d unchanged
\* when the price equals the reference price and when the price is <= 0:
\* in a call that applies a price vector, a region whose requests all meet
\* one of the two cases generates exactly the passengers the demand ledger
\* holds for it.
C24_ScenarioC ==
    [][ElasticStep]_vars

\* a call with an applied price vector has generated the passenger of a
\* request priced at its reference price and the passenger of a request
\* priced at zero
C24_Witness ==
    /\ mode = 2 /\ ret.op = "match_step_simple" /\ pc = "AwaitRebalance" /\ time >= 1
    /\ DOMAIN req = Region /\ SumOver(req, Region) # 0
    /\ \E a \in EdgeSet, b \in EdgeSet :
          /\ demand[a][time] = 1 /\ demand[b][time] = 1 /\ a[1] # b[1]
          /\ GeneratedAt(a[1], time) = 1 /\ GeneratedAt(b[1], time) = 1
          /\ AgentPrice(demandTime[a][time], req[a[1]]) = price[a][time]
          /\ AgentPrice(demandTime[b][time], req[b[1]]) <= 0

\* the passengers of the current time who wait in region n carry the
\* reference price of their edge
LedgerPriced(q, n, t) ==
    \A k \in DOMAIN q[n] :
        q[n][k].time = t =>
            q[n][k].price = price[<<q[n][k].origin, q[n][k].destination>>][t]

\* the elastic volume of the requests out of region n, floored at zero
ElasticFrom(n, t) ==
    SumOver([e \in EdgeSet |->
                IF e[1] = n
                THEN Max(DemandUpdate(demand[e][t], PriceOn(e), 2 * PriceOn(e), price[e][t]), 0)
                ELSE 0],
            EdgeSet)

\* the step is a match_step_simple call without a price vector, or with one
\* that sums to zero
UnpricedCalled ==
    /\ MatchCalled /\ ret'.op = "match_step_simple"
    /\ (mode = 0 \/ SumOver(action_rl, Region) = 0)

VolumeStep ==
    /\ UnpricedCalled =>
          \A n \in Region :
              /\ Len(passenger'[n][time]) = DemandFrom(n, time)
              /\ LedgerPriced(queue', n, time)
    /\ PricedCalled =>
          /\ \A n \in Region : Len(passenger'[n][time]) = ElasticFrom(n, time)
          /\ arrivals' >= arrivals

\* C25: without a price signal, or with one that sums to zero, a
\* match_step_simple call generates on every edge the volume demand[n,j][t]
\* of the ledger at the reference price price[n,j][t]; with an applied
\* signal the generated volume is never negative.
C25_ReferenceVolume ==
    [][VolumeStep]_vars

\* a call given a price vector that is not zero but sums to zero has
\* generated the passenger of a request of reference price 40, who waits
\* with that price
C25_Witness ==
    /\ mode = 2 /\ ret.op = "match_step_simple" /\ pc = "AwaitRebalance"
    /\ DOMAIN req = Region /\ SumOver(req, Region) = 0 /\ req # ZeroSignal
    /\ \E n \in Region :
          /\ GeneratedAt(n, time) = 1
          /\ \E k \in DOMAIN queue[n] : queue[n][k].time = time /\ queue[n][k].price = 40

\* passengers out of region n that a call has matched: the units
\* servedDemand gained on the edges out of n
MatchedFrom(n) ==
    SumOver([e \in EdgeSet |->
                IF e[1] = n THEN SumDict(servedDemand'[e]) - SumDict(servedDemand[e]) ELSE 0],
            EdgeSet)

SimpleCalled == MatchCalled /\ ret'.op = "match_step_simple"

InventoryStep ==
    SimpleCalled =>
        \A n \in Region :
            /\ MatchedFrom(n) >= 0
            /\ MatchedFrom(n) <= acc[n][time]
            /\ acc'[n][time + 1] = acc[n][time] - MatchedFrom(n)
            /\ acc'[n][time] = acc[n][time]

\* C26: in match_step_simple at time t the passengers matched from region n
\* are at most acc[n][t], each match takes one vehicle, and on return
\* acc[n][t+1] = acc[n][t] - (number matched from n in this call); vehicles
\* arriving from earlier flows are not added by the matching step.
C26_MatchInventory ==
    [][InventoryStep]_vars

\* a matching call at time 1 has served a passenger out of a region and
\* taken its vehicle, while the vehicle of a passenger served at time 0 is
\* on its way
C26_Witness ==
    /\ ret.op = "match_step_simple" /\ pc = "AwaitRebalance" /\ time = 1
    /\ \E e \in EdgeSet :
          /\ Get(servedDemand[e], 1) = 1
          /\ acc[e[1]][1] = 1 /\ acc[e[1]][2] = 0
    /\ \E e \in EdgeSet : Get(servedDemand[e], 0) = 1 /\ FlowPending(paxFlow) >= 1

\* the wait counter of passenger id in the queues q, -1 where it is not queued
WaitOf(q, id) ==
    IF \E n \in Region : \E k \in DOMAIN q[n] : q[n][k].id = id
    THEN LET n == CHOOSE m \in Region : \E k \in DOMAIN q[m] : q[m][k].id = id
             k == CHOOSE i \in DOMAIN q[n] : q[n][i].id = id
         IN  q[n][k].wait_time
    ELSE -1

\* units the unserved ledger gained for trips out of region n
AbandonedFrom(n) ==
    SumOver([e \in EdgeSet |->
                IF e[1] = n THEN SumDict(unservedDemand'[e]) - SumDict(unservedDemand[e]) ELSE 0],
            EdgeSet)

WaitStep ==
    SimpleCalled =>
        \A n \in Region :
            LET walkedOld == {queue[n][k].id : k \in DOMAIN queue[n]}
                walkedNew == {passenger'[n][time][k] : k \in DOMAIN passenger'[n][time]}
                stays == {queue'[n][k].id : k \in DOMAIN queue'[n]}
                due == {id \in walkedOld : WaitOf(queue, id) + 1 >= MAX_WAIT_STEP}
            IN  /\ stays \subseteq walkedOld \cup walkedNew
                /\ \A id \in stays \cap walkedOld :
                      WaitOf(queue', id) = WaitOf(queue, id) + 1
                /\ \A id \in stays \cap walkedNew : WaitOf(queue', id) = 1
                /\ \A id \in stays : WaitOf(queue', id) < MAX_WAIT_STEP
                /\ AbandonedFrom(n) <= Cardinality(due)
                /\ Cardinality(due) <= AbandonedFrom(n) + MatchedFrom(n)

\* C27: wait-time monotonicity.  Every passenger a match_step_simple call
\* walks and does not match has its wait counter raised by exactly one,
\* whether it declined or the region had no vehicle left; no counter goes
\* down, and a passenger leaves as abandoned in the call in which its counter
\* reaches MAX_WAIT_STEP, so nobody waits with a counter at the threshold.
C27_WaitMonotone ==
    [][WaitStep]_vars

\* a passenger has left as abandoned in the call of its twelfth update, in
\* which its region held a vehicle that it declined
C27_Witness ==
    /\ ret.op = "match_step_simple" /\ pc = "AwaitRebalance"
    /\ UnservedTotal = 1 /\ QueuedTotal = 0
    /\ \E e \in EdgeSet :
          /\ Get(unservedDemand[e], time) = 1
          /\ acc[e[1]][time] >= 1
          /\ acc[e[1]][time + 1] = acc[e[1]][time]

\* position of passenger id in the list of ids lst, 0 where it is absent
PosIn(lst, id) ==
    IF \E k \in DOMAIN lst : lst[k] = id
    THEN CHOOSE k \in DOMAIN lst : lst[k] = id
    ELSE 0

FifoStep ==
    SimpleCalled =>
        \A n \in Region :
            LET before == Ids(queue[n])
                after == Ids(queue'[n])
                batch == passenger'[n][time]
                IsOld(id) == PosIn(before, id) > 0
                Stays(id) == PosIn(after, id) > 0
            IN  /\ \A a \in DOMAIN after : \A b \in DOMAIN after :
                      (IsOld(after[a]) /\ ~IsOld(after[b])) => a < b
                /\ SelectSeq(after, IsOld) = SelectSeq(before, Stays)
                /\ \A k \in DOMAIN batch : ~IsOld(batch[k])
                /\ {batch[k] : k \in DOMAIN batch}
                      = {id \in (arrivals + 1) .. arrivals' :
                            \E k \in DOMAIN batch : batch[k] = id}
                /\ Len(SelectSeq(after, IsOld)) + Len(batch) >= Len(after)

\* C28: FIFO priority across steps.  The walk of match_step_simple places
\* every passenger queued at an earlier step before every passenger entering
\* at the current step and keeps the order of those queued before; the
\* shuffle permutes the passengers generated in the call among themselves
\* only.
C28_FifoAcrossSteps ==
    [][FifoStep]_vars

\* a call has walked a passenger waiting since an earlier step and then two
\* passengers entering in the call, and all three wait in that order
C28_Witness ==
    /\ ret.op = "match_step_simple" /\ pc = "AwaitRebalance"
    /\ \E n \in Region :
          /\ Len(queue[n]) = 3
          /\ queue[n][1].wait_time = 2 /\ queue[n][1].time = 0
          /\ queue[n][2].wait_time = 1 /\ queue[n][2].time = 1
          /\ queue[n][3].wait_time = 1 /\ queue[n][3].time = 1

\* the passengers of edge e accepted in the call that is this step
Accepted(e) == Gain(servedDemand, servedDemand', e, time)

AcceptedTotal == SumOver([e \in EdgeSet |-> Accepted(e)], EdgeSet)

AccountingStep ==
    SimpleCalled =>
        /\ \A e \in EdgeSet :
              /\ Accepted(e) >= 0
              /\ \A k \in (DOMAIN paxFlow[e]) \cup (DOMAIN paxFlow'[e]) :
                    Gain(paxFlow, paxFlow', e, k)
                        = IF k = time + demandTime[e][time] THEN Accepted(e) ELSE 0
              /\ Accepted(e) > 0 =>
                    /\ (time + demandTime[e][time]) \in DOMAIN paxFlow'[e]
                    /\ (time + demandTime[e][time]) \in DOMAIN dacc'[e[2]]
              /\ \A k \in (DOMAIN servedDemand[e]) \cup (DOMAIN servedDemand'[e]) :
                    k # time => Gain(servedDemand, servedDemand', e, k) = 0
        /\ \A d \in Region :
              \A k \in (DOMAIN dacc[d]) \cup (DOMAIN dacc'[d]) :
                  Get(dacc'[d], k) - Get(dacc[d], k)
                      = SumOver([e \in EdgeSet |->
                                    IF e[2] = d /\ k = time + demandTime[e][time]
                                    THEN Accepted(e) ELSE 0], EdgeSet)
        /\ info'.served_demand - info.served_demand = AcceptedTotal
        /\ SumOver([n \in Region |-> acc[n][time] - acc'[n][time + 1]], Region)
              = AcceptedTotal
        /\ FlowPending(paxFlow') - FlowPending(paxFlow) = AcceptedTotal

\* C29: acceptance accounting.  Each passenger of (o,d) accepted by
\* match_step_simple at time t with tau = demandTime[o,d][t] adds one to
\* paxFlow[(o,d)][t+tau], one to dacc[d][t+tau], one to servedDemand[(o,d)][t]
\* and one to info['served_demand']; over the call the increase of
\* info['served_demand'] equals the vehicles taken from the regions and the
\* increase of paxFlow.
C29_AcceptanceAccounting ==
    [][AccountingStep]_vars

\* a call at time 1 has accepted a passenger while the counters of a
\* passenger accepted at time 0 are still on the books
C29_Witness ==
    /\ ret.op = "match_step_simple" /\ pc = "AwaitRebalance"
    /\ time = 1
    /\ info.served_demand = 2
    /\ \E e \in EdgeSet : Get(servedDemand[e], 1) = 1
                          /\ Get(paxFlow[e], 1 + demandTime[e][1]) = 1

\* the step is a reb_step call of the driver
RebStepCalled == pc = "AwaitRebalance" /\ ret'.op = "reb_step" /\ pc' # pc

\* the step is a call of one of the three step methods
StepCalled == MatchCalled \/ RebStepCalled

ClockStep ==
    /\ RebStepCalled => time' = time + 1
    /\ MatchCalled => time' = time
    /\ StepCalled =>
          \A r \in Region :
              /\ \A k \in DOMAIN acc[r] :
                    k <= time => (k \in DOMAIN acc'[r] /\ acc'[r][k] = acc[r][k])
              /\ \A k \in (DOMAIN acc[r]) \cup (DOMAIN acc'[r]) :
                    k # time + 1 =>
                        (k \in DOMAIN acc[r] /\ k \in DOMAIN acc'[r]
                            /\ acc'[r][k] = acc[r][k])

\* C30: only reb_step advances the clock.  Each reb_step call increases time
\* by exactly one, match_step_simple and pax_step leave it unchanged, and no
\* step call changes acc[r][k] for any k <= time: the calls write
\* acc[r][time + 1] only.
C30_ClockAndHistory ==
    [][ClockStep]_vars

\* reb_step has moved the clock from 1 to 2 with an inventory that changed at
\* both steps of the episode
C30_Witness ==
    /\ ret.op = "reb_step" /\ time = 2
    /\ \E r \in Region : acc[r][2] # acc[r][1] /\ acc[r][1] # acc[r][0]

\* the last call on the environment was the constructor, reb_step or reset
EdgeTimeSet == ret.op \in {"none", "reb_step", "reset"}

\* C31: between operations every graph edge's current travel-time attribute
\* is the table value of the current time: G.edges[i,j]['time'] equals
\* rebTime[i,j][time] after construction, after every reb_step and after
\* every reset(), also a reset that follows a finished episode with
\* time-varying rebalancing times.
C31_EdgeTimeCurrent ==
    EdgeTimeSet => \A ij \in GEdges : Gtime[ij] = rebTime[ij][time]

\* arrival times some ledger of region j has an entry for
ArrivalKeys(j) ==
    (DOMAIN dacc[j]) \cup
    UNION {(DOMAIN paxFlow[e]) \cup (DOMAIN rebFlow[e]) : e \in {x \in EdgeSet : x[2] = j}}

\* vehicles the flow ledgers book into region j at time k
FlowInto(j, k) ==
    SumOver([e \in EdgeSet |->
                IF e[2] = j THEN Get(paxFlow[e], k) + Get(rebFlow[e], k) ELSE 0],
            EdgeSet)

\* C32: arrival-ledger consistency.  After any sequence of matching and
\* rebalancing calls with non-negative actions, dacc[j][k] is the sum over
\* the origins i of paxFlow[(i,j)][k] + rebFlow[(i,j)][k] for every region j
\* and arrival time k, also when two departures at different steps share
\* the arrival time.
C32_ArrivalLedger ==
    \A j \in Region : \A k \in ArrivalKeys(j) : Get(dacc[j], k) = FlowInto(j, k)

\* passengers generated in the episode, counted in the buffers of their
\* origin and request time: each of them entered the queue of its origin
EnteredTotal ==
    SumOver([n \in Region |->
                SumOver([t \in DOMAIN passenger[n] |-> Len(passenger[n][t])],
                        DOMAIN passenger[n])],
            Region)

\* C33: passenger conservation.  After any number of match_step_simple
\* calls in an episode the passengers that have entered a queue are those
\* matched (the sum of servedDemand) plus those who abandoned (the sum of
\* unservedDemand) plus those still waiting in the queues; none is lost and
\* none is counted twice.
C33_PassengerConservation ==
    /\ EnteredTotal = ServedTotal + UnservedTotal + QueuedTotal
    /\ EnteredTotal = arrivals
    /\ QueuedTotal = Cardinality(QueuedIds)

\* an episode in which two passengers entered a queue, one was matched and
\* the other has abandoned after waiting
C33_Witness ==
    /\ ret.op = "match_step_simple"
    /\ EnteredTotal >= 2 /\ ServedTotal >= 1 /\ UnservedTotal >= 1

\* C34: the cumulative info counters describe the current episode.  At any
\* point of an episode driven by match_step_simple and reb_step,
\* info['served_demand'] is the sum of the episode's servedDemand ledger and
\* info['unserved_demand'] the sum of its unservedDemand ledger, also in an
\* episode that reset() starts after an earlier one.
C34_InfoOfEpisode ==
    (engine = "simple" /\ episode >= 1) =>
        /\ info.served_demand = ServedTotal
        /\ info.unserved_demand = UnservedTotal

\* the loop is inside the horizon: a round starts before tf only, and the
\* loop has ended exactly when the clock shows tf
LoopInHorizon ==
    /\ time <= tf
    /\ pc \in {"AwaitMatch", "AwaitRebalance"} => time < tf
    /\ pc = "EpisodeEnd" => time = tf

\* a round of the loop is one match_step_simple and then one reb_step, and
\* the clock counts the rounds made
LoopRound ==
    /\ MatchCalled => (ret'.op = "match_step_simple" /\ pc' = "AwaitRebalance"
                          /\ time' = time)
    /\ RebStepCalled => (time' = time + 1
                            /\ pc' = IF time' = tf THEN "EpisodeEnd" ELSE "AwaitMatch")
    /\ time' # time => (RebStepCalled \/ ret'.op = "reset")

====
